---- MODULE Spec2Model ----
(***************************************************************************)
(* The IPC control channel of src/js/internal/child_process.ts             *)
(* (setupChannel): one target, its channel, the handle-transfer handshake  *)
(* (NODE_HANDLE / NODE_HANDLE_ACK / NODE_HANDLE_NACK), the backlog         *)
(* (_handleQueue), the pending handle (_pendingMessage), the deferred      *)
(* delivery of inbound messages (process.nextTick) and the                 *)
(* connect / drain / disconnect lifecycle.                                 *)
(*                                                                         *)
(* One side of the channel is modelled from the code.  The other side is   *)
(* a peer that answers NODE_HANDLE envelopes it has received (an ACK or a  *)
(* NACK only for an envelope that is still unanswered) and originates      *)
(* messages of its own at any time.                                        *)
(*                                                                         *)
(* Scheduling: JavaScript is single threaded.  A handler runs to           *)
(* completion (one action).  Callbacks given to process.nextTick are kept  *)
(* in the FIFO `ticks`; the transport's read callback (onread) is only     *)
(* invoked when that queue is empty.  Code of the user runs when that      *)
(* queue is empty (from a timer or another event), or inside a handler     *)
(* that calls it: a listener of "message", "internalMessage", "error",     *)
(* "disconnect" or "close", or the callback of a send.  The calls such a   *)
(* listener makes on the target happen inside the handler, before          *)
(* whatever the handler does after the listener returns; an exception of   *)
(* such a call leaves the listener and the handler.  They are an input of  *)
(* the handler (its script).  When the listener returns normally and the   *)
(* handler has nothing left to do, the code of the user may go on with     *)
(* further calls (userTurn).                                               *)
(*                                                                         *)
(* target is an EventEmitter (node:events, not part of this source): emit  *)
(* calls the listeners registered when it starts, in registration order,   *)
(* also those removed meanwhile; a listener registered with once() is      *)
(* removed before it is called; an exception of a listener ends the emit;  *)
(* emit("error", err) with no "error" listener throws err.  The listeners  *)
(* of "message" and "error" are tracked.  Listeners of "internalMessage"   *)
(* (registered after setupChannel), "disconnect" and "close" show only in  *)
(* the calls they make: a script that places no call at them is the run    *)
(* without them; registering one emits "newListener" as for any event, so  *)
(* the flush is queued.  A listener does not throw on its own.  The        *)
(* platform is not win32 (setSimultaneousAccepts is not called).           *)
(***************************************************************************)
EXTENDS Integers, Sequences, FiniteSets, TLC

\* ------------------------------------------------------------------ bounds
\* The runs explored are those of separate workloads: a sender (the user
\* sends, disconnects and registers an "error" listener, the peer only
\* answers), a receiver (the peer originates messages, the user registers
\* listeners and disconnects), a duplex one (both directions at once), a
\* late listener (the peer originates more messages, the user registers one
\* listener) and a writer (the transport completes writes asynchronously,
\* the user calls ref() / unref() on the control object).  In the first
\* two the transport may start to fail writes.
SenderSends == 2          \* send() calls of the sender workload
SenderDisconnects == 2    \* its disconnect() calls
SenderErrorListeners == 1 \* its on("error") calls
ReceiverPeer == 2         \* messages the peer originates in the receiver workload
ReceiverListenerOps == 2  \* its on() / once() / off() calls ("message", other events)
ReceiverDisconnects == 1  \* its disconnect() calls
DuplexSends == 1          \* the duplex workload: send() calls,
DuplexPeer == 1           \*   messages the peer originates,
DuplexDisconnects == 1    \*   disconnect() calls,
DuplexListenerOps == 2    \*   on() / once() / off() calls
LatePeer == 3             \* the late listener workload: messages of the peer,
LateListenerOps == 1      \*   on() / once() calls
WriterSends == 2          \* the writer workload: send() calls,
WriterRefCalls == 1       \*   ref() / unref() calls on target.channel
MaxBatch == 2             \* complete messages parsed from one read
MaxListeners == 1         \* "message" listeners of one kind (on / once) the user
                          \* has registered at one time
MaxCalls == 2             \* calls the listeners of the user make inside one handler

\* One workload: the number of calls of each kind, whether the transport
\* may complete writes asynchronously and whether it may start to fail
\* writes.
Workload(s, p, d, l, r, async, el, faults) ==
    [sends |-> s, peer |-> p, disconnects |-> d, listenerOps |-> l,
     refCalls |-> r, async |-> async, errorListeners |-> el, faults |-> faults]

Workloads ==
    { Workload(SenderSends, 0, SenderDisconnects, 0, 0, FALSE, SenderErrorListeners, TRUE),
      Workload(0, ReceiverPeer, ReceiverDisconnects, ReceiverListenerOps, 0, FALSE, 0,
               TRUE),
      Workload(DuplexSends, DuplexPeer, DuplexDisconnects, DuplexListenerOps, 0, FALSE, 0,
               FALSE),
      Workload(0, LatePeer, 0, LateListenerOps, 0, FALSE, 0, FALSE),
      Workload(WriterSends, 0, 0, 0, WriterRefCalls, TRUE, 0, FALSE) }

\* ------------------------------------------------------- program constants
MAX_HANDLE_RETRANSMISSIONS == 3

\* INTERNAL_PREFIX = "NODE_", as a sequence of characters
INTERNAL_PREFIX == <<"N", "O", "D", "E", "_">>

\* The cmd field of the messages the model exchanges, as characters
\* (<<>>: the message has no string cmd field).
CmdChars(cmd) ==
    CASE cmd = "NODE_HANDLE" -> <<"N","O","D","E","_","H","A","N","D","L","E">>
      [] cmd = "NODE_HANDLE_ACK" ->
           <<"N","O","D","E","_","H","A","N","D","L","E","_","A","C","K">>
      [] cmd = "NODE_HANDLE_NACK" ->
           <<"N","O","D","E","_","H","A","N","D","L","E","_","N","A","C","K">>
      [] cmd = "NODE_FOO" -> <<"N","O","D","E","_","F","O","O">>
      [] cmd = "NODE_" -> <<"N","O","D","E","_">>
      [] OTHER -> <<>>

\* isInternal(message): cmd is a string longer than the prefix that starts
\* with the prefix.
isInternal(cmd) ==
    LET c == CmdChars(cmd) IN
    /\ Len(c) > Len(INTERNAL_PREFIX)
    /\ SubSeq(c, 1, Len(INTERNAL_PREFIX)) = INTERNAL_PREFIX

\* ------------------------------------------------------------------ values
\* target._handleQueue: null, or an array of QueuedSend
NullQueue == [arr |-> FALSE, items |-> <<>>]
EmptyQueue == [arr |-> TRUE, items |-> <<>>]

\* target._pendingMessage: null, or {callback, message, handle, options,
\* retransmissions}.  message is the NODE_HANDLE envelope of send `id`,
\* handle the raw handle extracted for it.
NullPending ==
    [set |-> FALSE, id |-> 0, cb |-> FALSE, swallowErrors |-> FALSE,
     retransmissions |-> 0]

\* The kinds of object a caller passes as `handle`:
\*   "none"          no handle
\*   "net.Socket"    (hasRaw: socket._handle is still there)
\*   "net.Server", "dgram.Socket"
\*   "native"        a raw handle object (what handleConversion[..].send
\*                   returns and postSend stores); no wrapper class
HandleKinds == {"none", "net.Socket", "net.Server", "dgram.Socket", "native"}

\* The arguments of one _send call.
Args(id, msg, hk, hasRaw, cb, swallowErrors, keepOpen) ==
    [id |-> id, msg |-> msg, hk |-> hk, hasRaw |-> hasRaw, cb |-> cb,
     swallowErrors |-> swallowErrors, keepOpen |-> keepOpen]

\* One call of writeChannelMessage, as the transport saw it.
Written(cmd, id, type, handle, failed) ==
    [cmd |-> cmd, id |-> id, type |-> type, handle |-> handle, failed |-> failed]

\* One callback queued with process.nextTick.
Tick(k, ev, cmd, id, type, h, err) ==
    [k |-> k, ev |-> ev, cmd |-> cmd, id |-> id, type |-> type, h |-> h, err |-> err]
TickEmit(ev, cmd, id, type, h) == Tick("emit", ev, cmd, id, type, h, "")
TickFinish == Tick("finish", "", "", 0, "", FALSE, "")
TickFlush == Tick("flush", "", "", 0, "", FALSE, "")
TickCallback(id, err) == Tick("callback", "", "", id, "", FALSE, err)
TickError(id, err) == Tick("error", "error", "", id, "", FALSE, err)

\* One argument list of send().  msg: "data" (a string, number, boolean or
\* object), "undefined" or "function"; hk, hasRaw: the kind of the handle
\* and whether the wrapper holds a raw handle; options: "undefined",
\* "object" or "null" (swallowErrors and keepOpen are the fields of an
\* options object).
Input(msg, hk, hasRaw, cb, options, swallowErrors, keepOpen) ==
    [msg |-> msg, hk |-> hk, hasRaw |-> hasRaw, cb |-> cb, options |-> options,
     swallowErrors |-> swallowErrors, keepOpen |-> keepOpen]

\* The argument lists send() is called with: one for every path through
\* send, _send, handleConversion[..].send and postSend.
SendInputs ==
    { Input("data", "none", TRUE, FALSE, "undefined", FALSE, FALSE),
      Input("data", "none", TRUE, TRUE, "undefined", FALSE, FALSE),
      Input("data", "net.Socket", TRUE, FALSE, "undefined", FALSE, FALSE),
      Input("data", "net.Socket", TRUE, FALSE, "object", FALSE, TRUE),
      Input("data", "net.Socket", FALSE, FALSE, "undefined", FALSE, FALSE),
      Input("data", "net.Socket", TRUE, TRUE, "object", TRUE, FALSE),
      Input("data", "net.Server", TRUE, FALSE, "object", TRUE, FALSE),
      Input("data", "net.Server", FALSE, FALSE, "undefined", FALSE, FALSE),
      Input("data", "dgram.Socket", TRUE, FALSE, "undefined", FALSE, FALSE),
      Input("data", "dgram.Socket", FALSE, TRUE, "undefined", FALSE, FALSE),
      Input("data", "native", TRUE, FALSE, "undefined", FALSE, FALSE),
      Input("undefined", "none", TRUE, FALSE, "undefined", FALSE, FALSE),
      Input("function", "none", TRUE, FALSE, "undefined", FALSE, FALSE),
      Input("data", "none", TRUE, FALSE, "null", FALSE, FALSE) }

\* The argument lists of the send() calls made by listeners: a message
\* alone, a message with a socket, no message, null as options.
ListenerSendInputs ==
    { Input("data", "none", TRUE, FALSE, "undefined", FALSE, FALSE),
      Input("data", "net.Socket", TRUE, FALSE, "undefined", FALSE, FALSE),
      Input("undefined", "none", TRUE, FALSE, "undefined", FALSE, FALSE),
      Input("data", "none", TRUE, FALSE, "null", FALSE, FALSE) }

\* A call of the user on the target: send(in), disconnect(), on("message"),
\* once("message"), off("message"), on("error"), on(another event),
\* channel.ref(), channel.unref().
NoInput == Input("data", "none", FALSE, FALSE, "undefined", FALSE, FALSE)
Call(op, in) == [op |-> op, in |-> in]

\* A call made by the listener (or callback) of the user that is the at-th
\* one called in a handler.  The script of a handler is the sequence of
\* these calls, in the order they are made.
Placed(at, c) == [at |-> at, op |-> c.op, in |-> c.in]

\* lastCall when the last step was no call of the user.
NoCall ==
    [op |-> "none", options |-> "", cb |-> FALSE, ret |-> "none", hk |-> "none",
     hasRaw |-> FALSE, swallowErrors |-> FALSE, keepOpen |-> FALSE]

\* ------------------------------------------------------------------- state
VARIABLES
    connected,        \* target.connected
    channel,          \* target.channel is non-null (the Control object)
    handleQueue,      \* target._handleQueue
    pendingMessage,   \* target._pendingMessage
    buffering,        \* channel.buffering: a partial frame has been read
    eof,              \* the transport has reported EOF (onread(undefined) was called)
    closeCalls,       \* how often channel.close() has been called
    closesGot,        \* subprocess._closesGot
    txFail,           \* writeChannelMessage returns a non-zero error code
    txAsync,          \* streamBaseState[kLastWriteWasAsync] after a write
    control,          \* the Control object: #refs, #refExplicitlySet, and the
                      \* calls it has made: channel.ref(), channel.unref(),
                      \* emit("unref")
    inflight,         \* the asynchronous writes whose req.oncomplete has not run
    refCalls,         \* ref() / unref() calls made by the user on target.channel
    ticks,            \* the process.nextTick queue
    messageListeners, \* the listeners of "message", in registration order:
                      \* "on", "once" (of the user), "finish" (of _disconnect)
    errorListeners,   \* "error" listeners registered by the user
    onceInternal,     \* finish is registered with once("internalMessage")
    fired,            \* the `fired` flag of _disconnect's finish
    pendingMessages,  \* control[kPendingMessages]
    reconstructing,   \* listen()/bind() callbacks of handleConversion[..].got not yet run
    closedHandles,    \* ids of the sends whose raw handle has been close()d
    keptOpen,         \* ids of the sends of a socket with options.keepOpen
    wire,             \* every writeChannelMessage call, in order
    delivered,        \* what the user's "message" listeners were called with, in order
    reported,         \* callbacks run and "error" events emitted
    thrown,           \* the exception that left the last handler, with the handler
    assertFailed,     \* the $assert conditions that were false when evaluated
    warnings,         \* process.emitWarning calls
    disconnectEvents, \* "disconnect" events emitted
    owed,             \* NODE_HANDLE envelopes the peer received and has not answered yet
    peerNext,         \* id of the next message the peer originates
    sends,            \* send() calls made so far (ids 1..sends)
    disconnectCalls,  \* disconnect() calls made by the user
    listenerOps,      \* on / once / off("message") calls made by the user
    userTurn,         \* code of the user is running: it made the last call, or
                      \* the handler that ran last ended in it
    lastCall,         \* when the last step was a call made by the user outside
                      \* any handler: the call, for send() its arguments and
                      \* what it returned
    workload          \* the calls the user and the peer make in this run

vars ==
    <<connected, channel, handleQueue, pendingMessage, buffering, eof, closeCalls,
      closesGot, txFail, txAsync, control, inflight, refCalls, ticks,
      messageListeners, errorListeners, onceInternal, fired,
      pendingMessages, reconstructing, closedHandles, keptOpen, wire, delivered, reported,
      thrown, assertFailed, warnings, disconnectEvents, owed, peerNext,
      sends, disconnectCalls, listenerOps, userTurn, lastCall,
      workload>>

\* How many listeners of one kind a list holds.
Count(list, kind) == Cardinality({i \in DOMAIN list : list[i] = kind})

\* The "message" listeners of the user registered with on(), with once(),
\* and whether finish is registered with once("message").
listeners == Count(messageListeners, "on")
onceListeners == Count(messageListeners, "once")
onceMessage == Count(messageListeners, "finish") > 0

\* The part of the state the handlers below read and write, as one record, so
\* that a handler that calls another (the drain loop calls _send, _send calls
\* postSend, a listener calls disconnect, ...) is the composition of their
\* operators.  err is the exception propagating out of the current handler
\* ("none": none), ret the value _send returned; inv counts the listeners
\* and callbacks of the user called so far in the handler, used the calls of
\* the script made so far; valid: no call was made that the user does not
\* make; asserted: a $assert condition was false.
Machine ==
    [connected |-> connected, channel |-> channel, handleQueue |-> handleQueue,
     pendingMessage |-> pendingMessage, closeCalls |-> closeCalls,
     closesGot |-> closesGot, ticks |-> ticks,
     messageListeners |-> messageListeners, errorListeners |-> errorListeners,
     onceInternal |-> onceInternal, fired |-> fired,
     pendingMessages |-> pendingMessages, reconstructing |-> reconstructing,
     closedHandles |-> closedHandles, keptOpen |-> keptOpen,
     wire |-> wire, delivered |-> delivered,
     assertFailed |-> assertFailed, warnings |-> warnings,
     reported |-> reported, disconnectEvents |-> disconnectEvents, owed |-> owed,
     peerNext |-> peerNext,
     control |-> control, inflight |-> inflight,
     sends |-> sends, disconnectCalls |-> disconnectCalls,
     listenerOps |-> listenerOps, refCalls |-> refCalls,
     inv |-> 0, used |-> 0, valid |-> TRUE, asserted |-> FALSE,
     err |-> "none", ret |-> "none"]

\* What a handler reads and does not write: the build ($assert is compiled
\* out of release builds) and the transport's state.
Env(dbg) ==
    [dbg |-> dbg, txFail |-> txFail, txAsync |-> txAsync, buffering |-> buffering]

Throw(M, e) == [M EXCEPT !.err = e]

\* $assert(cond): a debug build throws when cond is false, a release build
\* evaluates nothing.  assertFailed records that cond was false.
assertion(M, cond, label, dbg) ==
    IF cond THEN M
    ELSE LET F == [M EXCEPT !.assertFailed = @ \cup {label}, !.asserted = TRUE]
         IN IF dbg THEN Throw(F, "AssertionError") ELSE F

nextTick(M, t) == [M EXCEPT !.ticks = Append(@, t)]

\* ------------------------------------------------------------ class Control
\* new Control(channel): #refs = 0, #refExplicitlySet = false; no call made.
NewControl ==
    [refs |-> 0, refExplicitlySet |-> FALSE, channelRefs |-> 0, channelUnrefs |-> 0,
     unrefEvents |-> 0]

\* refCounted with the test of #refExplicitlySet left out.
refCountedAlways(M) ==
    LET n == M.control.refs + 1
    IN [M EXCEPT !.control.refs = n,
                 !.control.channelRefs = IF n = 1 THEN @ + 1 ELSE @]

\* Control.refCounted()
refCounted(M) ==
    LET n == M.control.refs + 1
    IN [M EXCEPT !.control.refs = n,
                 !.control.channelRefs =
                     IF n = 1 /\ ~M.control.refExplicitlySet THEN @ + 1 ELSE @]

\* Control.unrefCounted()
unrefCounted(M) ==
    LET n == M.control.refs - 1
        auto == n = 0 /\ ~M.control.refExplicitlySet
    IN [M EXCEPT !.control.refs = n,
                 !.control.channelUnrefs = IF auto THEN @ + 1 ELSE @,
                 !.control.unrefEvents = IF auto THEN @ + 1 ELSE @]

\* Control.ref()
ref(M) ==
    [M EXCEPT !.control.refExplicitlySet = TRUE, !.control.channelRefs = @ + 1]

\* Control.unref()
unref(M) ==
    [M EXCEPT !.control.refExplicitlySet = TRUE, !.control.channelUnrefs = @ + 1]

\* ------------------------------------------------------------ the transport
\* writeChannelMessage(channel, req, message, handle): the call is recorded;
\* when it succeeds the peer receives the message: a NODE_HANDLE envelope
\* will be answered.
writeChannelMessage(M, cmd, id, type, handle, failed) ==
    [M EXCEPT
       !.wire = Append(@, Written(cmd, id, type, handle, failed)),
       !.owed = IF ~failed /\ cmd = "NODE_HANDLE" THEN @ + 1 ELSE @]

\* ------------------------------------------------------- handleConversion
\* The wrapper classes target._send recognises with instanceof.
WrapperTypes == {"net.Socket", "net.Server", "dgram.Socket"}

\* handleConversion[type].send returns the raw handle of the wrapper (TRUE)
\* or nothing: socket._handle, server._handle, socket[kStateSymbol].handle
\* is absent (hasRaw false) for a socket whose handle is gone, a server that
\* is not listening, a dgram socket that is not bound.  (The bookkeeping of
\* a socket that belongs to a net.Server, lines 471-486, is not tracked.)
handleConversionSend(a) == a.hasRaw

\* Only handleConversion["net.Socket"] has a postSend.
hasPostSend(type) == type = "net.Socket"

closePendingHandle(M) ==
    [M EXCEPT !.closedHandles = @ \cup {M.pendingMessage.id},
              !.pendingMessage = NullPending]

\* postSend recording the handle as pending also when the write failed
\* (called without target).
postSendStoresOnFailure(M, a, raw, withTarget, dbg) ==
    IF raw /\ ~a.keepOpen
    THEN [M EXCEPT !.pendingMessage =
            [set |-> TRUE, id |-> a.id, cb |-> a.cb,
             swallowErrors |-> a.swallowErrors, retransmissions |-> 0]]
    ELSE M

\* handleConversion["net.Socket"].postSend(message, handle, options, callback, target)
postSend(M, a, raw, withTarget, dbg) ==
    IF raw /\ ~a.keepOpen
    THEN IF withTarget
         THEN LET A == assertion(M, ~M.pendingMessage.set, "postSend", dbg)
              IN IF A.err # "none" THEN A
                 ELSE [A EXCEPT !.pendingMessage =
                         [set |-> TRUE, id |-> a.id, cb |-> a.cb,
                          swallowErrors |-> a.swallowErrors, retransmissions |-> 0]]
         ELSE [M EXCEPT !.closedHandles = @ \cup {a.id}]
    ELSE M

\* ------------------------------------------------------------ target._send
\* Lines 239-248 and 267-274: ArrayPrototypePush(this._handleQueue, {...}).
\* ArrayPrototypePush is Array.prototype.push itself (line 25), called here
\* as a plain function: its receiver is undefined and the call throws a
\* TypeError.  Nothing is pushed, the return of line 247 / 274 is not
\* reached.
enqueue(M, a) == Throw(M, "TypeError")

\* Lines 277-312: write, then the success or the failure branch.
\* raw: a raw handle goes with the message (the message is then the
\* NODE_HANDLE envelope, otherwise the bare message).
transmit(M, a, raw, e) ==
    LET cmd == IF raw THEN "NODE_HANDLE" ELSE a.msg
        type == IF raw THEN a.hk ELSE ""
        obj == a.hk # "none" /\ hasPostSend(a.hk)
        W == writeChannelMessage(M, cmd, a.id, type, raw, e.txFail)
    IN IF ~e.txFail
       THEN LET Q == IF raw /\ ~W.handleQueue.arr
                     THEN [W EXCEPT !.handleQueue = EmptyQueue] ELSE W
                P == IF raw /\ obj THEN postSend(Q, a, raw, TRUE, e.dbg) ELSE Q
            IN IF P.err # "none" THEN P
               ELSE [(IF e.txAsync
                      THEN refCounted([P EXCEPT !.inflight =
                                         @ \cup {[id |-> a.id, cmd |-> cmd, cb |-> a.cb]}])
                      ELSE IF a.cb THEN nextTick(P, TickCallback(a.id, "null"))
                      ELSE P)
                       EXCEPT !.ret = "writeQueueSize"]
       ELSE LET P == IF obj THEN postSend(W, a, raw, FALSE, e.dbg) ELSE W
                R == IF a.swallowErrors THEN P
                     ELSE IF a.cb THEN nextTick(P, TickCallback(a.id, "write"))
                     ELSE nextTick(P, TickError(a.id, "write"))
            IN [R EXCEPT !.ret = "writeQueueSize"]

\* _send without the exemption of line 265: an answer is queued behind the
\* backlog like any other message.
_sendQueuesReplies(M, a, e) ==
    LET A == assertion(M, M.connected \/ M.channel, "_send", e.dbg)
    IN IF A.err # "none" THEN A
       ELSE IF a.msg = "undefined" THEN Throw(A, "ERR_MISSING_ARGS")
       ELSE IF a.msg = "function" THEN Throw(A, "ERR_INVALID_ARG_TYPE")
       ELSE IF a.hk # "none"
            THEN IF a.hk \notin WrapperTypes THEN Throw(A, "ERR_INVALID_HANDLE_TYPE")
                 ELSE IF A.handleQueue.arr THEN enqueue(A, a)
                 ELSE transmit(A, a, handleConversionSend(a), e)
       ELSE IF A.handleQueue.arr THEN enqueue(A, a)
       ELSE transmit(A, a, FALSE, e)

_send(M, a, e) ==
    LET A == assertion(M, M.connected \/ M.channel, "_send", e.dbg)
    IN IF A.err # "none" THEN A
       ELSE IF a.msg = "undefined" THEN Throw(A, "ERR_MISSING_ARGS")
       ELSE IF a.msg = "function" THEN Throw(A, "ERR_INVALID_ARG_TYPE")
       ELSE IF a.hk # "none"
            THEN IF a.hk \notin WrapperTypes THEN Throw(A, "ERR_INVALID_HANDLE_TYPE")
                 ELSE IF A.handleQueue.arr THEN enqueue(A, a)
                 ELSE transmit(A, a, handleConversionSend(a), e)
       ELSE IF A.handleQueue.arr
               /\ a.msg \notin {"NODE_HANDLE_ACK", "NODE_HANDLE_NACK"}
            THEN enqueue(A, a)
       ELSE transmit(A, a, FALSE, e)

\* -------------------------------------------------------------- target.send
\* validateObject(value, name): null, arrays and non-objects are rejected.
validateObject(kind) == kind = "object"

\* sendClosed reporting inside the call instead of on the next tick.
sendClosedSync(M, a) ==
    [M EXCEPT !.reported =
        @ \cup {[via |-> IF a.cb THEN "callback" ELSE "error", id |-> a.id,
                 err |-> "ERR_IPC_CHANNEL_CLOSED"]}]

\* Lines 182-188 of target.send: the target is not connected.  The error is
\* handed to the callback, or emitted as "error", on the next tick.
sendClosed(M, a) ==
    nextTick(M, IF a.cb THEN TickCallback(a.id, "ERR_IPC_CHANNEL_CLOSED")
                ELSE TickError(a.id, "ERR_IPC_CHANNEL_CLOSED"))

\* target.send(message, handle, options, callback), as call number id.
targetSend(M, in, id, e) ==
    LET a == Args(id, in.msg, in.hk, in.hasRaw, in.cb, in.swallowErrors, in.keepOpen)
    IN IF in.options # "undefined" /\ ~validateObject(in.options)
       THEN Throw(M, "ERR_INVALID_ARG_TYPE")
       ELSE IF M.connected THEN _send(M, a, e)
       ELSE [sendClosed(M, a) EXCEPT !.ret = "false"]

\* ------------------------------------------------- the listeners of the user
\* A listener or callback of the user is called: it makes the calls the
\* script s places at it, in order; an exception of a call leaves it.
RECURSIVE invoke(_, _, _)

\* target.emit("error", err): the "error" listeners are called with err; with
\* none registered the emitter throws err.  via and id key the record of the
\* event.
emitError(M, e, s, via, id, err) ==
    IF M.errorListeners = 0 THEN Throw(M, err)
    ELSE invoke([M EXCEPT !.reported = @ \cup {[via |-> via, id |-> id, err |-> err]}],
                e, s)

\* ------------------------------------------------- disconnect, _disconnect
\* finish() of _disconnect: close the channel and emit "disconnect", once.
finish(M, e, s) ==
    IF M.fired THEN M
    ELSE invoke([M EXCEPT !.fired = TRUE, !.closeCalls = @ + 1,
                          !.disconnectEvents = @ + 1], e, s)

\* Lines 360-364: finish is registered with once("message") and
\* once("internalMessage"); each registration emits "newListener", whose
\* handler queues a flush.
onceFinish(C) ==
    nextTick(nextTick([C EXCEPT !.messageListeners = Append(@, "finish"),
                                !.onceInternal = TRUE],
                      TickFlush), TickFlush)

\* target._disconnect.  With a partial frame buffered finish waits for the
\* next message, otherwise it is queued.
_disconnect(M, e) ==
    LET A == assertion(M, M.channel, "_disconnect", e.dbg)
    IN IF A.err # "none" THEN A
       ELSE LET N == [A EXCEPT !.channel = FALSE]
                C == IF N.pendingMessage.set THEN closePendingHandle(N) ELSE N
            IN IF e.buffering THEN onceFinish(C) ELSE nextTick(C, TickFinish)

\* disconnect without its guard (lines 327-330 left out).
disconnectUnguarded(M, e, s, call) ==
    LET D == [M EXCEPT !.connected = FALSE]
    IN IF ~D.handleQueue.arr THEN _disconnect(D, e) ELSE D

\* disconnect without line 333: connected is left as it is.
disconnectKeepsConnected(M, e, s, call) ==
    IF ~M.connected
    THEN emitError(M, e, s, "error", call, "ERR_IPC_DISCONNECTED")
    ELSE IF ~M.handleQueue.arr THEN _disconnect(M, e) ELSE M

\* target.disconnect; call is the number of this call (it keys the report).
disconnect(M, e, s, call) ==
    IF ~M.connected
    THEN emitError(M, e, s, "error", call, "ERR_IPC_DISCONNECTED")
    ELSE LET D == [M EXCEPT !.connected = FALSE]
         IN IF ~D.handleQueue.arr THEN _disconnect(D, e) ELSE D

\* ----------------------------------------------------- the calls of the user
\* list without its first listener of the given kind.
without(list, kind) ==
    IF Count(list, kind) = 0 THEN list
    ELSE LET k == CHOOSE i \in DOMAIN list :
                     list[i] = kind /\ \A j \in 1..(i - 1) : list[j] # kind
         IN SubSeq(list, 1, k - 1) \o SubSeq(list, k + 1, Len(list))

\* target.on / target.once("message", listener): "newListener" is emitted,
\* its handler queues the flush, then the listener is added.  (The user
\* keeps at most MaxListeners of a kind.)
addMessageListener(M, kind) ==
    nextTick([M EXCEPT !.messageListeners = Append(@, kind),
                       !.listenerOps = @ + 1,
                       !.valid = @ /\ Count(M.messageListeners, kind) < MaxListeners],
             TickFlush)

\* target.off("message", listener), for a listener registered with on().
removeMessageListener(M) ==
    [M EXCEPT !.messageListeners = without(@, "on"),
              !.listenerOps = @ + 1,
              !.valid = @ /\ Count(M.messageListeners, "on") > 0]

\* target.on("error", listener): "newListener" is emitted as for any event.
onError(M) ==
    nextTick([M EXCEPT !.errorListeners = @ + 1], TickFlush)

\* target.on / target.once(event, listener) for an event other than
\* "message" and "error" ("disconnect", "internalMessage", "close", "exit",
\* ...): "newListener" is emitted as for any event.
onOther(M) ==
    nextTick([M EXCEPT !.listenerOps = @ + 1], TickFlush)

\* target.channel.ref() / target.channel.unref(), on a channel that is there.
userRef(M) == [ref(M) EXCEPT !.refCalls = @ + 1, !.valid = @ /\ M.channel]
userUnref(M) == [unref(M) EXCEPT !.refCalls = @ + 1, !.valid = @ /\ M.channel]

\* A socket with a handle sent with options.keepOpen.
KeepsOpen(in) == in.hk = "net.Socket" /\ in.hasRaw /\ in.keepOpen

\* target.send(in) as the next send() call.
userSend(M, in, e) ==
    targetSend([M EXCEPT !.sends = @ + 1,
                         !.keptOpen = IF KeepsOpen(in) THEN @ \cup {M.sends + 1} ELSE @],
               in, M.sends + 1, e)

\* The call c, made by code of the user.
userCall(M, e, s, c) ==
    CASE c.op = "send" -> userSend(M, c.in, e)
      [] c.op = "disconnect" ->
           disconnect([M EXCEPT !.disconnectCalls = @ + 1], e, s, M.disconnectCalls + 1)
      [] c.op = "on" -> addMessageListener(M, "on")
      [] c.op = "once" -> addMessageListener(M, "once")
      [] c.op = "off" -> removeMessageListener(M)
      [] c.op = "onError" -> onError(M)
      [] c.op = "onOther" -> onOther(M)
      [] c.op = "ref" -> userRef(M)
      [] c.op = "unref" -> userUnref(M)

\* The calls of the script s placed at the n-th listener called, from the
\* i-th entry of s on.
RECURSIVE userCalls(_, _, _, _, _)
userCalls(M, e, s, n, i) ==
    IF i > Len(s) \/ M.err # "none" THEN M
    ELSE IF s[i].at # n THEN userCalls(M, e, s, n, i + 1)
    ELSE userCalls(userCall([M EXCEPT !.used = @ + 1], e, s, s[i]), e, s, n, i + 1)

invoke(M, e, s) == userCalls([M EXCEPT !.inv = @ + 1], e, s, M.inv + 1, 1)

\* ---------------------------------------------------------- inbound messages
\* handleMessage(message, handle, internal)
handleMessage(M, cmd, id, type, h, internal) ==
    IF ~M.channel THEN M
    ELSE nextTick(M, TickEmit(IF internal THEN "internalMessage" ELSE "message",
                              cmd, id, type, h))

\* The for loop of the ACK/NACK branch: _send for every backlog entry; an
\* exception leaves the loop.
RECURSIVE drain(_, _, _, _)
drain(M, queue, i, e) ==
    IF i > Len(queue) \/ M.err # "none" THEN M
    ELSE drain(_send(M, queue[i], e), queue, i + 1, e)

\* Lines 103-110: the pending entry, if any, is handed to _send again: the
\* stored NODE_HANDLE envelope with the stored raw handle.
retransmit(N, e) ==
    IF N.pendingMessage.set
    THEN _send(N, Args(N.pendingMessage.id, "NODE_HANDLE", "native", TRUE,
                       N.pendingMessage.cb, N.pendingMessage.swallowErrors, FALSE), e)
    ELSE N

\* Lines 112-115, after the retransmission R: queue is what _handleQueue
\* held at line 100.
backlog(R, queue, e) ==
    IF R.err # "none" THEN R
    ELSE IF ~queue.arr THEN Throw(R, "TypeError")  \* null.length
    ELSE drain(R, queue.items, 1, e)

\* Lines 117-118: process a pending disconnect (if any).
pendingDisconnect(D, e) ==
    IF D.err # "none" THEN D
    ELSE IF ~D.connected /\ D.channel /\ ~D.handleQueue.arr THEN _disconnect(D, e)
    ELSE D

\* Lines 86-121: NODE_HANDLE_ACK / NODE_HANDLE_NACK.
\* The retransmission passes the stored envelope and the stored raw handle
\* back to _send.
onHandleReply(M, cmd, e) ==
    LET pm == M.pendingMessage
        P == IF ~pm.set THEN M
             ELSE IF cmd = "NODE_HANDLE_ACK" THEN closePendingHandle(M)
             ELSE IF pm.retransmissions = MAX_HANDLE_RETRANSMISSIONS
                  THEN [closePendingHandle(M) EXCEPT
                          !.warnings = @ + 1]
             ELSE [M EXCEPT !.pendingMessage.retransmissions = @ + 1]
        A == assertion(P, P.handleQueue.arr, "handleQueue", e.dbg)
    IN IF A.err # "none" THEN A
       ELSE pendingDisconnect(
              backlog(retransmit([A EXCEPT !.handleQueue = NullQueue], e),
                      A.handleQueue, e), e)

\* handleConversion[type].got: net.Socket calls emit at once, net.Server and
\* dgram.Socket call it from the callback of listen() / bind().
got(M, id, type) ==
    IF type = "net.Socket"
    THEN handleMessage(M, "data", id, type, TRUE, isInternal("data"))
    ELSE [M EXCEPT !.reconstructing = @ \cup {[id |-> id, type |-> type]}]

\* Lines 136-146, after the _send of the answer (A): an exception of _send
\* leaves the handler, otherwise the handle is converted.
convert(A, t) == IF A.err # "none" THEN A ELSE got(A, t.id, t.type)

\* Lines 123-146: a NODE_HANDLE envelope of the peer (t.h: a raw handle came
\* with it).  The third argument true of _send is the legacy form of
\* {swallowErrors: true}.
onHandle(M, t, e) ==
    IF ~t.h
    THEN _send(M, Args(t.id, "NODE_HANDLE_NACK", "none", FALSE, FALSE, TRUE, FALSE), e)
    ELSE convert(_send(M, Args(t.id, "NODE_HANDLE_ACK", "none", FALSE, FALSE,
                               TRUE, FALSE), e), t)

\* The "internalMessage" listener installed by setupChannel.
internalMessage(M, t, e) ==
    IF t.cmd \in {"NODE_HANDLE_ACK", "NODE_HANDLE_NACK"} THEN onHandleReply(M, t.cmd, e)
    ELSE IF t.cmd # "NODE_HANDLE" THEN M
    ELSE onHandle(M, t, e)

\* target.listenerCount("message")
listenerCount(M) == Len(M.messageListeners)

\* The user's listeners are called with the message t: it is recorded once,
\* when the first of them is called.
deliver(M, snapshot, i, t, via) ==
    IF \A j \in 1..(i - 1) : snapshot[j] = "finish"
    THEN [M EXCEPT !.delivered = Append(@, [id |-> t.id, type |-> t.type, via |-> via])]
    ELSE M

\* The i-th listener of "message" is called: a listener registered with
\* once() (of the user, or finish) is removed first.
callListener(M, snapshot, i, t, via, e, s) ==
    IF snapshot[i] = "finish"
    THEN finish([M EXCEPT !.messageListeners = without(@, "finish")], e, s)
    ELSE invoke(deliver(IF snapshot[i] = "once"
                        THEN [M EXCEPT !.messageListeners = without(@, "once")]
                        ELSE M,
                        snapshot, i, t, via), e, s)

\* target.emit("message", message, handle): the listeners registered when
\* the call starts (snapshot) are called in order; an exception ends the
\* call.
RECURSIVE callListeners(_, _, _, _, _, _, _)
callListeners(M, snapshot, i, t, via, e, s) ==
    IF i > Len(snapshot) \/ M.err # "none" THEN M
    ELSE callListeners(callListener(M, snapshot, i, t, via, e, s),
                       snapshot, i + 1, t, via, e, s)

\* target.emit("internalMessage", ...), after the listener of setupChannel
\* (H): the listener of the user, then finish when it was registered with
\* once("internalMessage") before the call (registered).
afterInternal(U, registered, e, s) ==
    IF U.err # "none" \/ ~registered THEN U
    ELSE finish([U EXCEPT !.onceInternal = FALSE], e, s)

userInternal(H, e, s) == IF H.err # "none" THEN H ELSE invoke(H, e, s)

\* target.emit(event, message, handle)
targetEmit(M, t, via, e, s) ==
    IF t.ev = "message"
    THEN callListeners(M, M.messageListeners, 1, t, via, e, s)
    ELSE afterInternal(userInternal(internalMessage(M, t, e), e, s),
                       M.onceInternal, e, s)

\* The last thing target.emit does for t is to call a listener of the user
\* (when none of them throws): the last listener registered is one of the
\* user, or finish, which has not run before.
endsInListener(M, t) ==
    IF t.ev = "message"
    THEN /\ M.messageListeners # <<>>
         /\ M.messageListeners[Len(M.messageListeners)] = "finish" => ~M.fired
    ELSE ~(M.onceInternal /\ M.fired)

\* emit(event, message, handle), the callback handleMessage queues.
emit(M, t, e, s) ==
    IF t.ev = "internalMessage" \/ listenerCount(M) > 0
    THEN targetEmit(M, t, "emit", e, s)
    ELSE IF ~M.channel THEN Throw(M, "TypeError")  \* null[kPendingMessages]
    ELSE [M EXCEPT !.pendingMessages = Append(@, t)]

\* The loop of the "newListener" callback over the buffered messages
\* (lines 157-159).  An exception leaves the loop.
RECURSIVE flushLoop(_, _, _, _, _)
flushLoop(M, messages, i, e, s) ==
    IF i > Len(messages) \/ M.err # "none" THEN M
    ELSE flushLoop(targetEmit(M, messages[i], "flush", e, s), messages, i + 1, e, s)

\* Line 161, after the loop (L): target.channel[kPendingMessages] = [];
\* target.channel is read again.
resetPending(L) ==
    IF L.err # "none" THEN L
    ELSE IF ~L.channel THEN Throw(L, "TypeError")  \* null[kPendingMessages] = []
    ELSE [L EXCEPT !.pendingMessages = <<>>]

\* The callback the "newListener" handler queues.
flush(M, e, s) ==
    IF ~M.channel \/ listenerCount(M) = 0 THEN M
    ELSE IF Len(M.pendingMessages) = 0 THEN M
    ELSE resetPending(flushLoop(M, M.pendingMessages, 1, e, s))

\* callback(err), or emit("error", err), queued by send / _send.
report(M, t, e, s) ==
    IF t.k = "error" THEN emitError(M, e, s, t.k, t.id, t.err)
    ELSE invoke([M EXCEPT !.reported = @ \cup {[via |-> t.k, id |-> t.id, err |-> t.err]}],
                e, s)

\* Line 291: the callback of the send, if any, is called with null.
completed(U, w, e, s) ==
    IF w.cb
    THEN invoke([U EXCEPT !.reported =
                    @ \cup {[via |-> "callback", id |-> w.id, err |-> "null"]}], e, s)
    ELSE U

\* req.oncomplete of the asynchronous write w (lines 289-292).
oncomplete(M, w, e, s) ==
    completed(unrefCounted([M EXCEPT !.inflight = @ \ {w}]), w, e, s)

\* maybeClose(target): the "close" event is emitted when this was the last
\* close awaited (last: _closesGot has reached _closesNeeded, which is set
\* outside this source).
maybeClose(M, e, s, last) ==
    IF last THEN invoke([M EXCEPT !.closesGot = @ + 1], e, s)
    ELSE [M EXCEPT !.closesGot = @ + 1]

\* Lines 73-76 of onread, after target.disconnect() (D): an exception of
\* disconnect leaves the handler before them.
closeChannel(D, e, s, last) ==
    IF D.err # "none" THEN D
    ELSE maybeClose([D EXCEPT !.closeCalls = @ + 1, !.channel = FALSE], e, s, last)

\* The EOF branch of onread (lines 70-77): this.buffering = false, then
\* target.disconnect() as call number 0, then the channel is closed.
onEOF(M, e, s, last) ==
    closeChannel(disconnect(M, [e EXCEPT !.buffering = FALSE], s, 0),
                 [e EXCEPT !.buffering = FALSE], s, last)

\* ----------------------------------------------------------------- scripts
\* The calls a listener of the user can make after the calls counted in R:
\* those the workload has left.
ListenerCalls(R) ==
    {Call(op, NoInput) :
        op \in (IF R.disconnectCalls < workload.disconnects THEN {"disconnect"} ELSE {})
               \cup (IF R.listenerOps < workload.listenerOps
                     THEN {"on", "once", "off", "onOther"} ELSE {})
               \cup (IF R.errorListeners < workload.errorListeners
                     THEN {"onError"} ELSE {})
               \cup (IF R.refCalls < workload.refCalls THEN {"ref", "unref"} ELSE {})}
    \cup {Call("send", in) :
            in \in IF R.sends < workload.sends THEN ListenerSendInputs ELSE {}}

\* The scripts that extend s by one call, when the handler ends in R with
\* the script s: the call is made by the listener that made the last call
\* of s, or by one called later.
Longer(s, R) ==
    {Append(s, Placed(k, c)) :
        k \in (IF s = <<>> THEN 1 ELSE s[Len(s)].at)..R.inv, c \in ListenerCalls(R)}

\* The handler ended in R with the script s: every call of s was made, and
\* every call is one the user makes.
Ran(R, s) == R.valid /\ R.used = Len(s)

\* The nextTick queue without its head, which runs.
Popped == [Machine EXCEPT !.ticks = Tail(ticks)]

\* The scripts: sequences of calls placed at the listeners a handler calls.
Scripts ==
    Seq([at : Nat \ {0},
         op : {"send", "disconnect", "on", "once", "off", "onError", "onOther", "ref",
               "unref"},
         in : ListenerSendInputs \cup {NoInput}])

\* The scripts to try after the runs S: those that extend a run of S with
\* k - 1 calls by one call; at first the script without a call.
Candidates(S, k) ==
    IF k = 0 THEN {<<>>}
    ELSE UNION {Longer(q[1], q[2]) : q \in {r \in S : Len(r[1]) = k - 1}}

\* The runs <<s, H[s]>> of S with those of the scripts to try after them
\* (H: the record a handler ends in, for every script).
Grown(H, S, k) ==
    S \cup {p \in {<<x, H[x]>> : x \in Candidates(S, k)} : Ran(p[2], p[1])}

\* The runs of a handler: every script s of at most MaxCalls calls (in the
\* order they are made) with which the handler runs, and the record H[s] it
\* ends in.
Runs(H) ==
    LET A[k \in 0..MaxCalls] ==
            UNION {Grown(H, S, k) : S \in {IF k = 0 THEN {} ELSE A[k - 1]}}
    IN A[MaxCalls]

\* The runs of S (of a release build) with those of a debug build that
\* differ from them: those in which a $assert condition is false.
WithDebug(H, S) ==
    S \cup {<<p[1], H[TRUE][p[1]]>> : p \in {q \in S : q[2].asserted}}

\* The runs of a handler in the two builds (H[dbg][s]: the record it ends
\* in, for a debug or a release build and a script).
BuildRuns(H) == UNION {WithDebug(H, S) : S \in {Runs(H[FALSE])}}

\* The handler that ended in R made every call of the script s, every call
\* is one the user makes, and the user made no more calls than the workload
\* has.
Accepts(R, s) ==
    /\ Ran(R, s)
    /\ R.sends <= workload.sends
    /\ R.disconnectCalls <= workload.disconnects
    /\ R.listenerOps <= workload.listenerOps
    /\ R.errorListeners <= workload.errorListeners
    /\ R.refCalls <= workload.refCalls

\* ----------------------------------------------------------------- actions
\* The state after a handler: the record it produced; an exception that left
\* the handler is recorded with the handler's name.
Commit(M, op) ==
    /\ connected' = M.connected
    /\ channel' = M.channel
    /\ handleQueue' = M.handleQueue
    /\ pendingMessage' = M.pendingMessage
    /\ closeCalls' = M.closeCalls
    /\ closesGot' = M.closesGot
    /\ ticks' = M.ticks
    /\ messageListeners' = M.messageListeners
    /\ errorListeners' = M.errorListeners
    /\ onceInternal' = M.onceInternal
    /\ fired' = M.fired
    /\ pendingMessages' = M.pendingMessages
    /\ reconstructing' = M.reconstructing
    /\ closedHandles' = M.closedHandles
    /\ keptOpen' = M.keptOpen
    /\ wire' = M.wire
    /\ delivered' = M.delivered
    /\ assertFailed' = M.assertFailed
    /\ warnings' = M.warnings
    /\ reported' = M.reported
    /\ disconnectEvents' = M.disconnectEvents
    /\ owed' = M.owed
    /\ peerNext' = M.peerNext
    /\ control' = M.control
    /\ inflight' = M.inflight
    /\ sends' = M.sends
    /\ disconnectCalls' = M.disconnectCalls
    /\ listenerOps' = M.listenerOps
    /\ refCalls' = M.refCalls
    /\ workload' = workload
    /\ thrown' = [op |-> IF M.err # "none" THEN op ELSE "", err |-> M.err]

\* A handler run by the event loop ended in R with the script s.  Code of
\* the user is still running when the handler called it last (last) and it
\* returned.
Handled(R, s, op, last) ==
    /\ Accepts(R, s)
    /\ Commit(R, op)
    /\ userTurn' = (last /\ R.err = "none" /\ R.inv > 0)
    /\ lastCall' = NoCall

\* A call made by code of the user outside any handler ended in R.
Called(R, s, op) ==
    /\ Accepts(R, s)
    /\ Commit(R, op)
    /\ userTurn' = TRUE

\* Code of the user can make a call now: nothing is queued with nextTick, or
\* code of the user is running.
UserCanCall == ticks = <<>> \/ userTurn

\* target.send(message, handle, options, callback)
send ==
    /\ sends < workload.sends /\ UserCanCall
    /\ \E in \in SendInputs :
       \E p \in BuildRuns([dbg \in BOOLEAN |-> [x \in Scripts |->
                 userSend(Machine, in, Env(dbg))]]) :
         /\ Called(p[2], p[1], "send")
         /\ lastCall' = [op |-> "send", options |-> in.options, cb |-> in.cb,
                         ret |-> IF p[2].err # "none" THEN "threw" ELSE p[2].ret,
                         hk |-> in.hk, hasRaw |-> in.hasRaw,
                         swallowErrors |-> in.swallowErrors,
                         keepOpen |-> in.keepOpen]
    /\ UNCHANGED <<buffering, eof, txFail, txAsync>>

\* target.disconnect() called by the user
userDisconnect ==
    /\ disconnectCalls < workload.disconnects /\ UserCanCall
    /\ \E p \in BuildRuns([dbg \in BOOLEAN |-> [x \in Scripts |->
                 userCall(Machine, Env(dbg), x, Call("disconnect", NoInput))]]) :
         Called(p[2], p[1], "disconnect")
    /\ lastCall' = [NoCall EXCEPT !.op = "disconnect"]
    /\ UNCHANGED <<buffering, eof, txFail, txAsync>>

\* What one read can carry: answers of the peer and messages it originates;
\* a NODE_HANDLE envelope comes with the raw handle (h) or without it.
PeerItems ==
    {[cmd |-> c, type |-> "", h |-> FALSE] :
        c \in {"NODE_HANDLE_ACK", "NODE_HANDLE_NACK", "data", "NODE_FOO"}}
    \cup {[cmd |-> "NODE_HANDLE", type |-> t, h |-> h] :
            t \in WrapperTypes, h \in BOOLEAN}

Batches == UNION {[1..n -> PeerItems] : n \in 0..MaxBatch}

IsReply(item) == item.cmd \in {"NODE_HANDLE_ACK", "NODE_HANDLE_NACK"}

\* The peer can have produced items[i..]: an answer only for an envelope it
\* received and has not answered, and no more messages of its own than the
\* workload has.
RECURSIVE PeerCanSend(_, _, _, _)
PeerCanSend(items, i, o, next) ==
    IF i > Len(items) THEN TRUE
    ELSE IF IsReply(items[i])
         THEN o > 0 /\ PeerCanSend(items, i + 1, o - 1, next)
         ELSE next <= workload.peer /\ PeerCanSend(items, i + 1, o, next + 1)

\* The for loop of onread over the parsed messages (lines 55-69).  A
\* NODE_HANDLE message gets the handle received with the read.
RECURSIVE onreadLoop(_, _, _)
onreadLoop(M, items, i) ==
    IF i > Len(items) THEN M
    ELSE LET m == items[i]
             id == IF IsReply(m) THEN 0 ELSE M.peerNext
             P == IF IsReply(m) THEN [M EXCEPT !.owed = @ - 1]
                  ELSE [M EXCEPT !.peerNext = @ + 1]
             H == IF isInternal(m.cmd)
                  THEN IF m.cmd = "NODE_HANDLE"
                       THEN handleMessage(P, m.cmd, id, m.type, m.h, TRUE)
                       ELSE handleMessage(P, m.cmd, id, "", FALSE, TRUE)
                  ELSE handleMessage(P, m.cmd, id, "", FALSE, FALSE)
         IN onreadLoop(H, items, i + 1)

\* channel.onread(arrayBuffer) with data: the complete messages are handled,
\* a trailing partial frame leaves channel.buffering set.
onread ==
    /\ ticks = <<>> /\ ~eof /\ closeCalls = 0
    /\ \E items \in Batches, partial \in BOOLEAN :
         /\ items = <<>> => partial
         /\ PeerCanSend(items, 1, owed, peerNext)
         /\ buffering' = partial
         /\ \E R \in {onreadLoop(Machine, items, 1)} :
               Handled(R, <<>>, "onread", FALSE)
    /\ UNCHANGED <<eof, txFail, txAsync>>

\* channel.onread(undefined): the peer closed the channel (lines 70-77).
onreadEOF ==
    /\ ticks = <<>> /\ ~eof /\ closeCalls = 0
    /\ buffering' = FALSE
    /\ eof' = TRUE
    /\ \E last \in BOOLEAN :
         \E p \in BuildRuns([dbg \in BOOLEAN |-> [x \in Scripts |->
                 onEOF(Machine, Env(dbg), x, last)]]) :
            Handled(p[2], p[1], "onread", last)
    /\ UNCHANGED <<txFail, txAsync>>

\* The head of the nextTick queue runs: emit(event, message, handle).
runEmit ==
    /\ ticks # <<>> /\ Head(ticks).k = "emit"
    /\ \E p \in BuildRuns([dbg \in BOOLEAN |-> [x \in Scripts |->
                 emit(Popped, Head(ticks), Env(dbg), x)]]) :
            Handled(p[2], p[1],
                    IF Head(ticks).ev = "message" THEN "message" ELSE Head(ticks).cmd,
                    endsInListener(Popped, Head(ticks)))
    /\ UNCHANGED <<buffering, eof, txFail, txAsync>>

\* The head of the nextTick queue runs: finish.
runFinish ==
    /\ ticks # <<>> /\ Head(ticks).k = "finish"
    /\ \E p \in BuildRuns([dbg \in BOOLEAN |-> [x \in Scripts |->
                 finish(Popped, Env(dbg), x)]]) :
            Handled(p[2], p[1], "finish", TRUE)
    /\ UNCHANGED <<buffering, eof, txFail, txAsync>>

\* The callback queued by the "newListener" handler runs.  Line 161 follows
\* the listeners.
runFlush ==
    /\ ticks # <<>> /\ Head(ticks).k = "flush"
    /\ \E p \in BuildRuns([dbg \in BOOLEAN |-> [x \in Scripts |->
                 flush(Popped, Env(dbg), x)]]) :
            Handled(p[2], p[1], "newListener", FALSE)
    /\ UNCHANGED <<buffering, eof, txFail, txAsync>>

\* callback(err), or emit("error", err), queued by send / _send.
runReport ==
    /\ ticks # <<>> /\ Head(ticks).k \in {"callback", "error"}
    /\ \E p \in BuildRuns([dbg \in BOOLEAN |-> [x \in Scripts |->
                 report(Popped, Head(ticks), Env(dbg), x)]]) :
            Handled(p[2], p[1], "report", TRUE)
    /\ UNCHANGED <<buffering, eof, txFail, txAsync>>

\* The callback of server.listen(handle) / socket.bind(handle) in
\* handleConversion[..].got: emit(wrapper).
reconstructed ==
    /\ ticks = <<>>
    /\ \E r \in reconstructing :
         \E R \in {handleMessage([Machine EXCEPT !.reconstructing = @ \ {r}],
                                  "data", r.id, r.type, TRUE, isInternal("data"))} :
            Handled(R, <<>>, "got", FALSE)
    /\ UNCHANGED <<buffering, eof, txFail, txAsync>>

\* target.on("message", listener) called by the user
addListener ==
    /\ listenerOps < workload.listenerOps /\ UserCanCall
    /\ \E R \in {userCall(Machine, Env(FALSE), <<>>, Call("on", NoInput))} :
          Called(R, <<>>, "on")
    /\ lastCall' = [NoCall EXCEPT !.op = "on"]
    /\ UNCHANGED <<buffering, eof, txFail, txAsync>>

\* target.once("message", listener) called by the user
addOnceListener ==
    /\ listenerOps < workload.listenerOps /\ UserCanCall
    /\ \E R \in {userCall(Machine, Env(FALSE), <<>>, Call("once", NoInput))} :
          Called(R, <<>>, "once")
    /\ lastCall' = [NoCall EXCEPT !.op = "once"]
    /\ UNCHANGED <<buffering, eof, txFail, txAsync>>

\* target.on("error", listener) called by the user
addErrorListener ==
    /\ errorListeners < workload.errorListeners /\ UserCanCall
    /\ \E R \in {userCall(Machine, Env(FALSE), <<>>, Call("onError", NoInput))} :
          Called(R, <<>>, "on")
    /\ lastCall' = [NoCall EXCEPT !.op = "onError"]
    /\ UNCHANGED <<buffering, eof, txFail, txAsync>>

\* target.on(event, listener) called by the user, for an event other than
\* "message" and "error"
addOtherListener ==
    /\ listenerOps < workload.listenerOps /\ UserCanCall
    /\ \E R \in {userCall(Machine, Env(FALSE), <<>>, Call("onOther", NoInput))} :
          Called(R, <<>>, "on")
    /\ lastCall' = [NoCall EXCEPT !.op = "onOther"]
    /\ UNCHANGED <<buffering, eof, txFail, txAsync>>

\* target.off("message", listener) called by the user
removeListener ==
    /\ listenerOps < workload.listenerOps /\ UserCanCall
    /\ \E R \in {userCall(Machine, Env(FALSE), <<>>, Call("off", NoInput))} :
          Called(R, <<>>, "off")
    /\ lastCall' = [NoCall EXCEPT !.op = "off"]
    /\ UNCHANGED <<buffering, eof, txFail, txAsync>>

\* The transport starts to fail writes (the peer is gone, the pipe is full).
transportFault ==
    /\ workload.faults /\ ~txFail /\ ~eof
    /\ txFail' = TRUE
    /\ Commit(Machine, "fault")
    /\ UNCHANGED <<buffering, eof, txAsync, userTurn>>
    /\ lastCall' = NoCall

\* The transport starts to complete writes asynchronously (its queue is not
\* empty any more).
transportBusy ==
    /\ workload.async /\ ~txAsync /\ ~eof
    /\ txAsync' = TRUE
    /\ Commit(Machine, "busy")
    /\ UNCHANGED <<buffering, eof, txFail, userTurn>>
    /\ lastCall' = NoCall

\* req.oncomplete of an asynchronous write runs.
writeComplete ==
    /\ ticks = <<>>
    /\ \E w \in inflight :
         \E p \in BuildRuns([dbg \in BOOLEAN |-> [x \in Scripts |->
                 oncomplete(Machine, w, Env(dbg), x)]]) :
            Handled(p[2], p[1], "oncomplete", TRUE)
    /\ UNCHANGED <<buffering, eof, txFail, txAsync>>

\* target.channel.ref() called by the user
controlRef ==
    /\ refCalls < workload.refCalls /\ UserCanCall
    /\ \E R \in {userCall(Machine, Env(FALSE), <<>>, Call("ref", NoInput))} :
          Called(R, <<>>, "ref")
    /\ lastCall' = [NoCall EXCEPT !.op = "ref"]
    /\ UNCHANGED <<buffering, eof, txFail, txAsync>>

\* target.channel.unref() called by the user
controlUnref ==
    /\ refCalls < workload.refCalls /\ UserCanCall
    /\ \E R \in {userCall(Machine, Env(FALSE), <<>>, Call("unref", NoInput))} :
          Called(R, <<>>, "unref")
    /\ lastCall' = [NoCall EXCEPT !.op = "unref"]
    /\ UNCHANGED <<buffering, eof, txFail, txAsync>>

\* The state setupChannel leaves (lines 33-45, 324, 387).
Init ==
    /\ connected = TRUE
    /\ channel = TRUE
    /\ handleQueue = NullQueue
    /\ pendingMessage = NullPending
    /\ buffering = FALSE
    /\ eof = FALSE
    /\ closeCalls = 0
    /\ closesGot = 0
    /\ txFail = FALSE
    /\ txAsync = FALSE
    /\ control = NewControl
    /\ inflight = {}
    /\ refCalls = 0
    /\ ticks = <<>>
    /\ messageListeners = <<>>
    /\ errorListeners = 0
    /\ onceInternal = FALSE
    /\ fired = FALSE
    /\ pendingMessages = <<>>
    /\ reconstructing = {}
    /\ closedHandles = {}
    /\ keptOpen = {}
    /\ wire = <<>>
    /\ delivered = <<>>
    /\ reported = {}
    /\ thrown = [op |-> "", err |-> "none"]
    /\ assertFailed = {}
    /\ warnings = 0
    /\ disconnectEvents = 0
    /\ owed = 0
    /\ peerNext = 1
    /\ sends = 0
    /\ disconnectCalls = 0
    /\ listenerOps = 0
    /\ userTurn = FALSE
    /\ lastCall = NoCall
    /\ workload \in Workloads

Next ==
    \/ send
    \/ userDisconnect
    \/ onread
    \/ onreadEOF
    \/ runEmit
    \/ runFinish
    \/ runFlush
    \/ runReport
    \/ reconstructed
    \/ addListener
    \/ addOnceListener
    \/ removeListener
    \/ addErrorListener
    \/ addOtherListener
    \/ transportFault
    \/ transportBusy
    \/ writeComplete
    \/ controlRef
    \/ controlUnref

Spec == Init /\ [][Next]_vars

\* ------------------------------------------------------------------ claims
\* The ids of the sends in a sequence of backlog entries or of writes.
Ids(seq) == {seq[i].id : i \in DOMAIN seq}

\* The writes that carry a send() of the user (not the answers to the peer).
IsSendWrite(w) == w.cmd \in {"data", "NODE_HANDLE"}
SentIds == {wire[i].id : i \in {j \in DOMAIN wire : IsSendWrite(wire[j])}}

\* How often the NODE_HANDLE envelope of send `id` was handed to the transport.
Transmissions(id) ==
    Cardinality({i \in DOMAIN wire : wire[i].cmd = "NODE_HANDLE" /\ wire[i].id = id})

\* The writes of the user's sends are in the order of the send() calls.
WireInOrder ==
    \A i, j \in DOMAIN wire :
        (i < j /\ IsSendWrite(wire[i]) /\ IsSendWrite(wire[j]))
            => wire[i].id <= wire[j].id

\* The backlog is in the order of the send() calls and behind every write.
BacklogInOrder ==
    /\ \A i, j \in DOMAIN handleQueue.items :
           i < j => handleQueue.items[i].id < handleQueue.items[j].id
    /\ \A q \in Ids(handleQueue.items) : \A w \in SentIds : w < q

\* The exceptions with which send() and _send reject their arguments.
ArgumentErrors == {"ERR_MISSING_ARGS", "ERR_INVALID_ARG_TYPE", "ERR_INVALID_HANDLE_TYPE"}

\* A step that is a send() call of the user, made outside the handlers.
SendCallStep == lastCall'.op = "send"

\* A send() call on a connected target, with arguments that are accepted,
\* made while a handle awaits its answer (the backlog exists).
BackloggedSendStep ==
    SendCallStep /\ connected /\ handleQueue.arr /\ thrown'.err \notin ArgumentErrors

\* C1: sends reach the transport in the order of the send() calls: the
\* writes are in call order; while a handle awaits its answer every later
\* send is appended to the backlog (nothing is written, nothing is thrown);
\* the backlog is in call order and behind every write, and a backlog entry
\* leaves the backlog only by being written (none is dropped).
C1_SendOrder ==
    /\ [](WireInOrder /\ BacklogInOrder)
    /\ [][Ids(handleQueue.items) \subseteq Ids(handleQueue'.items) \cup SentIds']_vars
    /\ [][BackloggedSendStep =>
            /\ thrown'.err = "none"
            /\ wire' = wire
            /\ Ids(handleQueue'.items) = Ids(handleQueue.items) \cup {sends'}]_vars

\* C2: the user's "message" listeners see the peer's messages in the order
\* the peer submitted them (messages handed over directly by emit, none of
\* them out of the buffer of early messages).
C2_ReceiveOrder ==
    \A i, j \in DOMAIN delivered :
        (i < j /\ delivered[i].via = "emit" /\ delivered[j].via = "emit")
            => delivered[i].id < delivered[j].id

\* C3: at most one handle handshake is outstanding: the peer owes at most
\* one answer, and postSend never finds _pendingMessage occupied (its
\* $assert holds whenever it is evaluated).
C3_OneHandshake == owed <= 1 /\ "postSend" \notin assertFailed

\* C4: a NODE_HANDLE_NACK for a pending handle below the retransmission cap
\* retransmits: as long as the entry is pending, its envelope has been handed
\* to the transport once plus once per counted retransmission.
C4_Retransmitted ==
    pendingMessage.set
        => Transmissions(pendingMessage.id) = pendingMessage.retransmissions + 1

\* C5: handling NODE_HANDLE_NACK never throws, and the handle is given up
\* (closed, with one warning) only after MAX_HANDLE_RETRANSMISSIONS
\* retransmissions of its envelope.
C5_NackNeverThrows ==
    /\ thrown.op # "NODE_HANDLE_NACK"
    /\ warnings <= 1
    /\ (warnings = 1 =>
          \E id \in closedHandles :
              Transmissions(id) = MAX_HANDLE_RETRANSMISSIONS + 1)

\* C6: after disconnect() with a backlog the channel is kept only while the
\* drain is still to come: while connected is false and the channel is kept,
\* the backlog exists (its handshake is still to be answered, after which
\* the queued sends are written and _disconnect runs).
C6_DeferredDisconnect ==
    (~connected /\ channel) => handleQueue.arr

\* C7: a disconnect that waits for a partial frame completes once the frame
\* has been read: when _disconnect has run, the frame is complete and every
\* deferred callback has run, finish has closed the channel and emitted
\* "disconnect".
C7_MidReadCompletes ==
    (~channel /\ ~eof /\ ~buffering /\ ticks = <<>>) => fired

\* C8: whenever target.channel becomes null, the backlog is absent and no
\* handle is pending.
C8_NullAfterDrain ==
    [][(channel /\ ~channel') => (~handleQueue'.arr /\ ~pendingMessage'.set)]_vars

\* The report of ERR_IPC_CHANNEL_CLOSED queued for send `id`.
ClosedReport(cb, id) ==
    IF cb THEN TickCallback(id, "ERR_IPC_CHANNEL_CLOSED")
    ELSE TickError(id, "ERR_IPC_CHANNEL_CLOSED")

\* A step that is a send() call on a target that is not connected.
ClosedSendStep == ~connected /\ SendCallStep

\* C9 as claimed: every send() on a target that is not connected writes
\* nothing, enqueues nothing, returns false and leaves the report of
\* ERR_IPC_CHANNEL_CLOSED to a later tick (callback if given, else "error").
C9_ClosedSend ==
    [][ClosedSendStep =>
          /\ wire' = wire
          /\ handleQueue' = handleQueue
          /\ reported' = reported
          /\ lastCall'.ret = "false"
          /\ ticks' = Append(ticks, ClosedReport(lastCall'.cb, sends'))]_vars

\* C9 amended: the same for every call whose options argument is undefined
\* or an object; a call with another options argument (null) throws
\* ERR_INVALID_ARG_TYPE out of send(), and writes, enqueues, queues and
\* reports nothing.
C9_ClosedSendValidOptions ==
    [][ClosedSendStep =>
          /\ wire' = wire
          /\ handleQueue' = handleQueue
          /\ pendingMessage' = pendingMessage
          /\ reported' = reported
          /\ IF lastCall'.options \in {"undefined", "object"}
             THEN /\ lastCall'.ret = "false"
                  /\ thrown'.err = "none"
                  /\ ticks' = Append(ticks, ClosedReport(lastCall'.cb, sends'))
             ELSE /\ lastCall'.ret = "threw"
                  /\ thrown' = [op |-> "send", err |-> "ERR_INVALID_ARG_TYPE"]
                  /\ ticks' = ticks]_vars

\* C9 witness: send() was called with a callback while the target was
\* draining (connected false, channel kept), returned false, and the
\* callback has not run yet.
C9_Witness ==
    /\ ~connected /\ channel /\ handleQueue.arr
    /\ lastCall.ret = "false" /\ lastCall.cb
    /\ ticks # <<>>
    /\ ticks[Len(ticks)] = TickCallback(sends, "ERR_IPC_CHANNEL_CLOSED")

\* The listeners called in the step make no call on the target.
QuietListeners ==
    /\ sends' = sends /\ listenerOps' = listenerOps /\ refCalls' = refCalls
    /\ errorListeners' = errorListeners
    /\ disconnectCalls' = disconnectCalls + (IF lastCall'.op = "disconnect" THEN 1 ELSE 0)

\* A step that is a disconnect() call of the user, made outside the
\* handlers, on a target that is not connected; the "error" listener makes
\* no call of its own.
SecondDisconnectStep ==
    ~connected /\ lastCall'.op = "disconnect" /\ QuietListeners

\* What a disconnect() call on a target that is not connected leaves alone.
DisconnectIsInert ==
    UNCHANGED <<connected, channel, handleQueue, pendingMessage, ticks, closeCalls,
                fired, disconnectEvents, closedHandles, messageListeners, onceInternal,
                wire>>

\* C10 as claimed: a disconnect() call on a target that is not connected
\* emits "error" with ERR_IPC_DISCONNECTED, does not throw, changes nothing
\* of connected, channel, _handleQueue, _pendingMessage, queues nothing
\* (_disconnect does not run again) and closes nothing; without an EOF of
\* the transport, channel.close() is called at most once.
C10_SecondDisconnect ==
    /\ [][SecondDisconnectStep =>
            /\ DisconnectIsInert
            /\ thrown'.err = "none"
            /\ reported' = reported \cup
                 {[via |-> "error", id |-> disconnectCalls',
                   err |-> "ERR_IPC_DISCONNECTED"]}]_vars
    /\ [](~eof => closeCalls <= 1)

\* C10 amended: the same when an "error" listener is registered; with none
\* the emitter throws ERR_IPC_DISCONNECTED out of disconnect(), no listener
\* is called, and the state is left alone all the same.
C10_SecondDisconnectListener ==
    /\ [][SecondDisconnectStep =>
            /\ DisconnectIsInert
            /\ IF errorListeners > 0
               THEN /\ thrown'.err = "none"
                    /\ reported' = reported \cup
                         {[via |-> "error", id |-> disconnectCalls',
                           err |-> "ERR_IPC_DISCONNECTED"]}
               ELSE /\ thrown' = [op |-> "disconnect", err |-> "ERR_IPC_DISCONNECTED"]
                    /\ reported' = reported]_vars
    /\ [](~eof => closeCalls <= 1)

\* C10 witness: disconnect() was called twice with an "error" listener
\* registered, the second call emitted the error, and the channel has been
\* closed once.
C10_Witness ==
    /\ disconnectCalls = 2 /\ errorListeners > 0
    /\ [via |-> "error", id |-> 2, err |-> "ERR_IPC_DISCONNECTED"] \in reported
    /\ fired /\ closeCalls = 1 /\ disconnectEvents = 1 /\ ~eof

\* The peer's messages the "message" listeners have been called with.
DeliveredIds == Ids(delivered)

\* No message was handed to the "message" listeners by two emit calls.
DeliveredOnce ==
    \A i, j \in DOMAIN delivered : delivered[i].id = delivered[j].id => i = j

\* C11: a message buffered for want of a "message" listener leaves the
\* buffer only by being handed to a "message" listener, and no message is
\* handed over twice (listeners registered with on() or once(), several of
\* them before the flush runs).
C11_BufferedExactlyOnce ==
    /\ [][Ids(pendingMessages) \subseteq Ids(pendingMessages') \cup DeliveredIds']_vars
    /\ []DeliveredOnce

\* The messages without a handle reached the "message" listeners in the
\* order they arrived in.
PlainInOrder ==
    \A i, j \in DOMAIN delivered :
        (i < j /\ delivered[i].type = "" /\ delivered[j].type = "")
            => delivered[i].id < delivered[j].id

\* A step that registers a "message" listener of the user.
RegistrationStep == lastCall'.op \in {"on", "once"}

\* C12: registering a listener delivers nothing inside the call, it queues
\* the flush for a later tick; and the "message" listeners see the messages
\* (those without a handle) in arrival order, whether a message comes out of
\* the buffer or from a delivery that was already queued.
C12_ArrivalOrder ==
    /\ [][RegistrationStep =>
            /\ delivered' = delivered
            /\ pendingMessages' = pendingMessages
            /\ ticks' = Append(ticks, TickFlush)]_vars
    /\ []PlainInOrder

\* A step that runs the head of the nextTick queue (no call of the user, no
\* change of the transport); the listeners it calls make no call on the
\* target.
TickStep ==
    /\ ticks # <<>> /\ lastCall'.op = "none" /\ QuietListeners
    /\ UNCHANGED <<txFail, txAsync>>

\* The answer the "internalMessage" handler writes for the envelope t.
Reply(t) ==
    Written(IF t.h THEN "NODE_HANDLE_ACK" ELSE "NODE_HANDLE_NACK", t.id, "", FALSE,
            txFail)

\* C13: NODE_HANDLE_ACK and NODE_HANDLE_NACK are never put on the backlog:
\* when the handler of a NODE_HANDLE envelope runs while the backlog exists
\* (a handshake of this side is outstanding), the answer is handed to the
\* transport in that very step, the backlog is left as it was and the push
\* on the backlog is not attempted (no TypeError).
C13_RepliesBypassBacklog ==
    [][(TickStep /\ Head(ticks).cmd = "NODE_HANDLE" /\ handleQueue.arr) =>
          /\ wire' = Append(wire, Reply(Head(ticks)))
          /\ handleQueue' = handleQueue
          /\ thrown'.err # "TypeError"]_vars

\* C13 witness: the envelope of this side has not been answered yet (the
\* backlog exists, the handle is pending) and the last write is the
\* NODE_HANDLE_ACK for an envelope of the peer.
C13_Witness ==
    /\ handleQueue.arr /\ pendingMessage.set /\ owed = 1
    /\ wire # <<>>
    /\ wire[Len(wire)].cmd = "NODE_HANDLE_ACK"
    /\ ~wire[Len(wire)].failed

\* A step that runs the "internalMessage" handler for a NODE_HANDLE
\* envelope of the peer.
EnvelopeStep == TickStep /\ Head(ticks).cmd = "NODE_HANDLE"

\* The reconstruction of the wrapper for the envelope t has started: the
\* net.Socket is built and handed to handleMessage at once (which drops it
\* when target.channel is null), a net.Server or dgram.Socket awaits the
\* callback of listen() / bind().
Reconstruction(t) ==
    IF t.type = "net.Socket"
    THEN /\ ticks' = IF channel
                     THEN Append(Tail(ticks),
                                 TickEmit("message", "data", t.id, t.type, TRUE))
                     ELSE Tail(ticks)
         /\ reconstructing' = reconstructing
    ELSE /\ ticks' = Tail(ticks)
         /\ reconstructing' = reconstructing \cup {[id |-> t.id, type |-> t.type]}

\* C14: the handler of a received NODE_HANDLE envelope writes exactly one
\* answer: NODE_HANDLE_ACK when a raw handle came with the envelope, and the
\* reconstruction is then started; NODE_HANDLE_NACK when none came, and then
\* nothing is reconstructed and nothing of the envelope reaches the user.
C14_OneReply ==
    [][EnvelopeStep =>
          /\ wire' = Append(wire, Reply(Head(ticks)))
          /\ thrown'.err = "none"
          /\ IF Head(ticks).h THEN Reconstruction(Head(ticks))
             ELSE /\ ticks' = Tail(ticks)
                  /\ reconstructing' = reconstructing
                  /\ delivered' = delivered
                  /\ pendingMessages' = pendingMessages]_vars

\* C20: the $assert at the top of _send holds whenever it is evaluated.
C20_SendAssertion == "_send" \notin assertFailed

\* C15: between handlers, _pendingMessage is non-null only while
\* _handleQueue is non-null.
C15_PendingImpliesQueue == pendingMessage.set => handleQueue.arr

\* A step that is a send() call whose write the transport refused.
FailedSendStep ==
    connected /\ SendCallStep /\ txFail /\ Len(wire') = Len(wire) + 1

\* The report of the failed write of send `id`.
WriteFailureReport(cb, id) ==
    IF cb THEN TickCallback(id, "write") ELSE TickError(id, "write")

\* The send took the raw handle out of its net.Socket (a socket with a
\* handle, not kept open): the socket has given it up (lines 492-495).
Detached(in) == in.hk = "net.Socket" /\ in.hasRaw /\ ~in.keepOpen

\* handleConversion[type].send returned a raw handle for the send (line
\* 253): that of a net.Socket, kept open or not, of a net.Server or of a
\* dgram.Socket.
Extracted(in) == in.hk \in WrapperTypes /\ in.hasRaw

\* C16, as stated: a send() whose write fails leaves _handleQueue and
\* _pendingMessage as they were, closes the handle extracted for it, if
\* any, throws nothing, reports nothing inside the call, and queues the
\* report (for the callback if given, else as "error") unless swallowErrors
\* is set.
C16_WriteFailure ==
    [][FailedSendStep =>
          /\ wire'[Len(wire')].failed
          /\ handleQueue' = handleQueue
          /\ pendingMessage' = pendingMessage
          /\ closedHandles' =
                closedHandles \cup (IF Extracted(lastCall') THEN {sends'} ELSE {})
          /\ thrown'.err = "none"
          /\ reported' = reported
          /\ ticks' = IF lastCall'.swallowErrors THEN ticks
                      ELSE Append(ticks, WriteFailureReport(lastCall'.cb, sends'))]_vars

\* C16, amended: a send() whose write fails leaves _handleQueue and
\* _pendingMessage as they were, closes the handle it took out of a
\* net.Socket sent without keepOpen and no other handle (that of a
\* net.Server, of a dgram.Socket or of a socket sent with keepOpen stays
\* open with its owner), throws nothing, reports nothing inside the call,
\* and queues the report (for the callback if given, else as "error")
\* unless swallowErrors is set.
C16_WriteFailureDetached ==
    [][FailedSendStep =>
          /\ wire'[Len(wire')].failed
          /\ handleQueue' = handleQueue
          /\ pendingMessage' = pendingMessage
          /\ closedHandles' =
                closedHandles \cup (IF Detached(lastCall') THEN {sends'} ELSE {})
          /\ thrown'.err = "none"
          /\ reported' = reported
          /\ ticks' = IF lastCall'.swallowErrors THEN ticks
                      ELSE Append(ticks, WriteFailureReport(lastCall'.cb, sends'))]_vars

\* C16 witness: the write of a socket sent with swallowErrors has just
\* failed: the handle is closed, nothing is pending, no backlog, no report.
C16_Witness ==
    /\ txFail /\ lastCall.op = "send" /\ Detached(lastCall) /\ lastCall.swallowErrors
    /\ wire # <<>> /\ wire[Len(wire)].failed /\ wire[Len(wire)].id = sends
    /\ sends \in closedHandles
    /\ ~handleQueue.arr /\ ~pendingMessage.set
    /\ ticks = <<>> /\ reported = {}

\* What the Control object has done to the channel and its listeners.
ControlCalls == <<control.channelRefs, control.channelUnrefs, control.unrefEvents>>

\* A step in which the user calls ref() or unref() on the control object
\* (outside the handlers, or in the callback of a completed write).
ExplicitStep == refCalls' = refCalls + 1

\* A step that starts one write or completes one (the callback of a
\* completed write does not send).
OneWriteStep == lastCall'.op = "send" \/ sends' = sends

\* C17: ref() and unref() set #refExplicitlySet for good; from then on
\* refCounted / unrefCounted (the start and the completion of asynchronous
\* writes) call neither channel.ref() nor channel.unref() and emit no
\* "unref"; before, channel.ref() is called exactly when the count of
\* writes in flight leaves 0 and channel.unref() (with one "unref" event)
\* exactly when it returns to 0.
C17_ExplicitRefWins ==
    [][/\ ExplicitStep => control'.refExplicitlySet
       /\ control.refExplicitlySet => control'.refExplicitlySet
       /\ (control.refExplicitlySet /\ ~ExplicitStep) => ControlCalls' = ControlCalls
       /\ (~control'.refExplicitlySet /\ OneWriteStep) =>
             /\ control'.channelRefs = control.channelRefs +
                   (IF control.refs = 0 /\ control'.refs > 0 THEN 1 ELSE 0)
             /\ control'.channelUnrefs = control.channelUnrefs +
                   (IF control.refs > 0 /\ control'.refs = 0 THEN 1 ELSE 0)
             /\ control'.unrefEvents = control'.channelUnrefs]_vars

\* C17 witness: two asynchronous writes were started, the user called
\* unref() while a write was in flight, and both writes have completed: the
\* only calls to the channel are the automatic ref() of the first write and
\* the user's unref(); the return of the count to 0 called nothing.
C17_Witness ==
    /\ control.refExplicitlySet /\ refCalls = 1
    /\ sends = 2 /\ inflight = {} /\ control.refs = 0
    /\ control.channelRefs = 1 /\ control.channelUnrefs = 1
    /\ control.unrefEvents = 0
    /\ Len(wire) = 2 /\ ~wire[1].failed /\ ~wire[2].failed

\* The envelope of a socket sent with keepOpen is the last envelope written
\* and the peer has not answered it yet.
KeptOpenUnanswered ==
    /\ owed > 0
    /\ \E i \in DOMAIN wire :
          /\ wire[i].cmd = "NODE_HANDLE" /\ ~wire[i].failed /\ wire[i].id \in keptOpen
          /\ \A j \in DOMAIN wire :
                (j > i /\ wire[j].cmd = "NODE_HANDLE") => wire[j].failed

\* C18: a socket sent with keepOpen is never recorded as the pending handle
\* and its handle is never closed (by an ACK, a NACK, a failed write or a
\* disconnect); while its envelope is unanswered the backlog exists and
\* every further send (with arguments that are accepted) is put on it
\* instead of being written.
C18_KeepOpen ==
    /\ [](keptOpen \cap closedHandles = {})
    /\ [](pendingMessage.set => pendingMessage.id \notin keptOpen)
    /\ [](KeptOpenUnanswered => handleQueue.arr)
    /\ [][(KeptOpenUnanswered /\ BackloggedSendStep) =>
             /\ thrown'.err = "none"
             /\ wire' = wire
             /\ Len(handleQueue'.items) = Len(handleQueue.items) + 1]_vars

\* C19: (connected, channel) is (true, non-null), (false, non-null) or
\* (false, null), never (true, null); connected never becomes true again
\* and channel never becomes non-null again.
C19_Lifecycle ==
    /\ [](connected => channel)
    /\ [][(~connected => ~connected') /\ (~channel => ~channel')]_vars

\* C19 witness: the target has reached (false, null) by disconnect() after
\* a handle transfer that the peer acknowledged: the handle is closed,
\* _disconnect has run and finish has emitted "disconnect".
C19_Witness ==
    /\ ~connected /\ ~channel /\ ~eof
    /\ disconnectCalls = 1 /\ disconnectEvents = 1 /\ fired
    /\ sends = 1 /\ closedHandles = {1}
    /\ Len(wire) = 1 /\ thrown.err = "none" /\ assertFailed = {}

\* A step in which emit has to buffer a user message: the callback queued
\* by handleMessage runs for a "message" event and target has no "message"
\* listener.
BufferingStep ==
    /\ TickStep
    /\ Head(ticks).k = "emit" /\ Head(ticks).ev = "message"
    /\ messageListeners = <<>>

\* C21: whenever emit has to buffer a user message, target.channel is
\* non-null: the buffer is appended to and nothing is thrown.
C21_BufferHasChannel ==
    [][BufferingStep =>
          /\ channel
          /\ thrown'.err = "none"
          /\ pendingMessages' = Append(pendingMessages, Head(ticks))]_vars

====
